---------------------------- MODULE Spec2Model ----------------------------
(***************************************************************************)
(* The native command layer of warlordtools (src-tauri/src/lib.rs and      *)
(* src-tauri/src/powershell_opener.rs): the recursive scan for filter      *)
(* files, the direct file-system commands, the shell invocations and the   *)
(* overlay-window command.                                                 *)
(*                                                                         *)
(* A file name is a tuple of tokens; "." is the dot and BadByte stands for *)
(* a byte sequence that is not valid UTF-8.  A path is a tuple of names    *)
(* below the volume root <<>>.  A text is a tuple of Unicode code points,  *)
(* the content of a file a tuple of bytes.                                 *)
(***************************************************************************)
EXTENDS Integers, Sequences, FiniteSets, TLC

VARIABLES
    fs,        \* the file system: existing path -> [kind, bytes]
    call,      \* the command dispatched last, with its arguments
    ret,       \* what that command returned
    io,        \* what the last command did: directories read, paths pushed,
               \* file-system primitives called
    written,   \* the last successful write_file_content, until a command
               \* other than a read follows it
    spawned,   \* the child process the last shell command spawned
    windows,   \* the windows of the windowing subsystem, in creation order
    task       \* the create_overlay_window invocations: position and arguments

vars == <<fs, call, ret, io, written, spawned, windows, task>>

-----------------------------------------------------------------------------
(* Bounds of the model *)

ScanDepth == 2
ScanNodes == 3
FsNodes == 4
FsDepth == 3

-----------------------------------------------------------------------------
(* Results, as they cross the command boundary: Result<T, String> *)

NoPath == <<"<none>">>

Ok(v) == [ok |-> TRUE, val |-> v, err |-> ""]
Err(msg) == [ok |-> FALSE, val |-> <<>>, err |-> msg]

NoFault == [kind |-> "none", at |-> NoPath]
NoCall == [op |-> "none", path |-> NoPath, path2 |-> NoPath, text |-> <<>>,
           fault |-> NoFault]
NoRet == Ok(<<>>)
NoIo == [reads |-> 0, pushed |-> 0, prims |-> <<>>]
NoWrite == [some |-> FALSE, path |-> NoPath, text |-> <<>>, replaced |-> FALSE]
NoSpawn == [program |-> "", args |-> <<>>, flags |-> 0]

-----------------------------------------------------------------------------
(* File names and paths *)

Dot == "."
BadByte == "\\xFF"

RECURSIVE SeqsUpTo(_, _)
SeqsUpTo(S, n) ==
    IF n = 0 THEN {<<>>}
    ELSE LET shorter == SeqsUpTo(S, n - 1)
         IN  shorter \cup {Append(s, x) : s \in {t \in shorter : Len(t) = n - 1}, x \in S}

Range(s) == {s[i] : i \in 1..Len(s)}

Parent(p) == SubSeq(p, 1, Len(p) - 1)
FileName(p) == p[Len(p)]

\* Path::exists, Path::is_dir and their negation for an entry
Exists(f, p) == p \in DOMAIN f
IsDir(f, p) == p \in DOMAIN f /\ f[p].kind = "dir"
IsFile(f, p) == p \in DOMAIN f /\ f[p].kind = "file"

DirNode == [kind |-> "dir", bytes |-> <<>>]
FileNode(b) == [kind |-> "file", bytes |-> b]

EmptyFs == (<<>> :> DirNode)

\* Path::extension: the part of the file name after its last dot, none when
\* the name has no dot or only a leading one
DotsOf(name) == {i \in 1..Len(name) : name[i] = Dot}
LastDot(name) == CHOOSE i \in DotsOf(name) : \A j \in DotsOf(name) : j <= i
Extension(name) ==
    IF DotsOf(name) = {} \/ name = <<Dot, Dot>> THEN [some |-> FALSE, ext |-> <<>>]
    ELSE IF LastDot(name) = 1 THEN [some |-> FALSE, ext |-> <<>>]
    ELSE [some |-> TRUE, ext |-> SubSeq(name, LastDot(name) + 1, Len(name))]

\* Path::to_str: the path as a string when it is valid Unicode
ToStr(p) ==
    IF \E i \in 1..Len(p) : BadByte \in Range(p[i])
    THEN [some |-> FALSE, str |-> NoPath]
    ELSE [some |-> TRUE, str |-> p]

-----------------------------------------------------------------------------
(* scan_filter_files *)

ScanNames == { <<"a", Dot, "filter">>, <<"notes", Dot, "txt">>, <<"sub">>,
               <<BadByte, Dot, "filter">> }
ScanOrder1 == << <<"a", Dot, "filter">>, <<"notes", Dot, "txt">>, <<"sub">>,
                 <<BadByte, Dot, "filter">> >>
ScanOrder2 == << <<BadByte, Dot, "filter">>, <<"sub">>,
                 <<"notes", Dot, "txt">>, <<"a", Dot, "filter">> >>
\* the order in which read_dir yields the entries of a directory is the
\* file system's; two opposite orders stand for it
ScanOrders == {ScanOrder1, ScanOrder2}

ScanPaths == SeqsUpTo(ScanNames, ScanDepth)

\* what can go wrong while a directory is read: read_dir(at) fails, or the
\* iterator fails when it comes to the entry `at`
ScanFaults(f) ==
    {NoFault}
    \cup {[kind |-> "read_dir", at |-> d] : d \in {p \in DOMAIN f : f[p].kind = "dir"}}
    \cup {[kind |-> "entry", at |-> p] : p \in DOMAIN f \ {<<>>}}
IoMessage == "Permission denied (os error 13)"

\* the entries of dir, in the order read_dir yields them
RECURSIVE EntriesIn(_, _, _, _)
EntriesIn(f, dir, order, i) ==
    IF i > Len(order) THEN <<>>
    ELSE IF Exists(f, Append(dir, order[i]))
         THEN <<Append(dir, order[i])>> \o EntriesIn(f, dir, order, i + 1)
         ELSE EntriesIn(f, dir, order, i + 1)
ReadDir(f, dir, order) == EntriesIn(f, dir, order, 1)

\* a slip of PushIfFilter: any extension taken for "filter"
PushIfExtension(path, filters) ==
    IF Extension(FileName(path)).some /\ ToStr(path).some
    THEN Append(filters, ToStr(path).str)
    ELSE filters

\* the inner `if let Some(ext) ... if ext == "filter" ... if let Some(path_str)`
PushIfFilter(path, filters) ==
    IF Extension(FileName(path)).some
       /\ Extension(FileName(path)).ext = <<"filter">>
       /\ ToStr(path).some
    THEN Append(filters, ToStr(path).str)
    ELSE filters

\* visit_dirs(dir, filters): st is [ok, filters, reads, err]; VisitEntries is
\* the body of its for loop over the entries not yet visited
RECURSIVE visit_dirs(_, _, _, _, _), VisitEntries(_, _, _, _, _)
visit_dirs(f, dir, order, fault, st) ==
    IF ~IsDir(f, dir) THEN st
    ELSE IF fault.kind = "read_dir" /\ fault.at = dir
         THEN [st EXCEPT !.ok = FALSE, !.err = IoMessage]
         ELSE VisitEntries(f, ReadDir(f, dir, order), order, fault,
                           [st EXCEPT !.reads = @ + 1])
VisitEntries(f, entries, order, fault, st) ==
    IF entries = <<>> THEN st
    ELSE LET path == Head(entries)
         IN  IF fault.kind = "entry" /\ fault.at = path
             THEN [st EXCEPT !.ok = FALSE, !.err = IoMessage]
             ELSE LET after == IF IsDir(f, path)
                               THEN visit_dirs(f, path, order, fault, st)
                               ELSE [st EXCEPT !.filters = PushIfFilter(path, @)]
                  IN  IF ~after.ok THEN after
                      ELSE VisitEntries(f, Tail(entries), order, fault, after)

ScanStart == [ok |-> TRUE, filters |-> <<>>, reads |-> 0, err |-> ""]

ScanIo(st) == [reads |-> st.reads, pushed |-> Len(st.filters), prims |-> <<>>]

\* two slips of scan_filter_files: no check of the root, and the paths
\* collected so far returned with the failure
scan_unchecked_root(f, path, order, fault) ==
    LET st == visit_dirs(f, path, order, fault, ScanStart)
    IN  IF st.ok THEN [ret |-> Ok(st.filters), io |-> ScanIo(st)]
        ELSE [ret |-> Err(st.err), io |-> ScanIo(st)]
scan_partial_result(f, path, order, fault) ==
    IF ~Exists(f, path)
    THEN [ret |-> Err("Path does not exist"), io |-> NoIo]
    ELSE LET st == visit_dirs(f, path, order, fault, ScanStart)
         IN  IF st.ok THEN [ret |-> Ok(st.filters), io |-> ScanIo(st)]
             ELSE [ret |-> [ok |-> FALSE, val |-> st.filters, err |-> st.err],
                   io |-> ScanIo(st)]

\* scan_filter_files(path): what it returns, and what it did on the way
scan_filter_files(f, path, order, fault) ==
    IF ~Exists(f, path)
    THEN [ret |-> Err("Path does not exist"), io |-> NoIo]
    ELSE LET st == visit_dirs(f, path, order, fault, ScanStart)
         IN  IF st.ok THEN [ret |-> Ok(st.filters), io |-> ScanIo(st)]
             ELSE [ret |-> Err(st.err), io |-> ScanIo(st)]

\* the directory trees a scan can find: up to MaxNodes entries below the root
RECURSIVE TreesUpTo(_, _, _)
TreesUpTo(P, contents, n) ==
    IF n = 0 THEN {EmptyFs}
    ELSE LET smaller == TreesUpTo(P, contents, n - 1)
         IN  smaller \cup
             UNION { { t @@ (p :> node) :
                         p \in {q \in P : q # <<>> /\ ~Exists(t, q) /\ IsDir(t, Parent(q))},
                         node \in {DirNode} \cup {FileNode(b) : b \in contents} } :
                     t \in smaller }
ScanTrees == TreesUpTo(ScanPaths, {<<>>}, ScanNodes)

\* the root a caller can name: a String, so valid Unicode; an existing path
\* or a missing one
ScanRoots(f) == {p \in ScanPaths : ToStr(p).some /\ (Exists(f, p) \/ Len(p) = 1)}

ScanFilterFiles ==
    \E path \in ScanRoots(fs), order \in ScanOrders, fault \in ScanFaults(fs) :
        LET r == scan_filter_files(fs, path, order, fault)
        IN  /\ call.op = "none"
            /\ call' = [NoCall EXCEPT !.op = "scan_filter_files", !.path = path,
                                      !.fault = fault]
            /\ ret' = r.ret
            /\ io' = r.io
            /\ UNCHANGED <<fs, written, spawned, windows, task>>

InitScan ==
    /\ fs \in ScanTrees
    /\ call = NoCall
    /\ ret = NoRet
    /\ io = NoIo
    /\ written = NoWrite
    /\ spawned = NoSpawn
    /\ windows = <<>>
    /\ task = <<>>

\* the response crosses the boundary; the dispatcher takes the next command
Respond ==
    /\ call.op # "none"
    /\ call' = NoCall
    /\ ret' = NoRet
    /\ io' = NoIo
    /\ spawned' = NoSpawn
    /\ UNCHANGED <<fs, written, windows, task>>

NextScan == ScanFilterFiles \/ Respond

SpecScan == InitScan /\ [][NextScan]_vars

-----------------------------------------------------------------------------
(* Texts and bytes: a String is written as its UTF-8 bytes (fs::write) and *)
(* read back through the validating decoder (fs::read_to_string)           *)

Utf8Char(cp) ==
    IF cp < 128 THEN <<cp>>
    ELSE IF cp < 2048 THEN <<192 + (cp \div 64), 128 + (cp % 64)>>
    ELSE IF cp < 65536
         THEN <<224 + (cp \div 4096), 128 + ((cp \div 64) % 64), 128 + (cp % 64)>>
         ELSE <<240 + (cp \div 262144), 128 + ((cp \div 4096) % 64),
                128 + ((cp \div 64) % 64), 128 + (cp % 64)>>

RECURSIVE Utf8Encode(_)
Utf8Encode(text) ==
    IF text = <<>> THEN <<>> ELSE Utf8Char(Head(text)) \o Utf8Encode(Tail(text))

IsCont(b) == b >= 128 /\ b < 192
Conts(bytes, n) == Len(bytes) > n /\ \A i \in 2..(n + 1) : IsCont(bytes[i])

\* the first character of a byte string: [ok, cp, len]
Utf8First(bytes) ==
    LET b == bytes[1]
        bad == [ok |-> FALSE, cp |-> 0, len |-> 0]
    IN  IF b < 128 THEN [ok |-> TRUE, cp |-> b, len |-> 1]
        ELSE IF b >= 194 /\ b < 224 /\ Conts(bytes, 1)
             THEN [ok |-> TRUE, cp |-> (b - 192) * 64 + (bytes[2] - 128), len |-> 2]
        ELSE IF b >= 224 /\ b < 240 /\ Conts(bytes, 2)
             THEN LET cp == (b - 224) * 4096 + (bytes[2] - 128) * 64 + (bytes[3] - 128)
                  IN  IF cp < 2048 \/ (cp >= 55296 /\ cp < 57344) THEN bad
                      ELSE [ok |-> TRUE, cp |-> cp, len |-> 3]
        ELSE IF b >= 240 /\ b < 245 /\ Conts(bytes, 3)
             THEN LET cp == (b - 240) * 262144 + (bytes[2] - 128) * 4096
                            + (bytes[3] - 128) * 64 + (bytes[4] - 128)
                  IN  IF cp < 65536 \/ cp > 1114111 THEN bad
                      ELSE [ok |-> TRUE, cp |-> cp, len |-> 4]
        ELSE bad

\* String::from_utf8: [ok, text]
RECURSIVE Utf8Decode(_)
Utf8Decode(bytes) ==
    IF bytes = <<>> THEN [ok |-> TRUE, text |-> <<>>]
    ELSE LET c == Utf8First(bytes)
         IN  IF ~c.ok THEN [ok |-> FALSE, text |-> <<>>]
             ELSE LET rest == Utf8Decode(SubSeq(bytes, c.len + 1, Len(bytes)))
                  IN  IF rest.ok THEN [ok |-> TRUE, text |-> <<c.cp>> \o rest.text]
                      ELSE [ok |-> FALSE, text |-> <<>>]

-----------------------------------------------------------------------------
(* The file-system primitives of std::fs the commands call.  Each yields    *)
(* [ok, val, err, fs]: its result and the file system it leaves.            *)

ENOENT == "No such file or directory (os error 2)"
ENOTDIR == "Not a directory (os error 20)"
EISDIR == "Is a directory (os error 21)"
EEXIST == "File exists (os error 17)"
EINVAL == "Invalid argument (os error 22)"
ENOTEMPTY == "Directory not empty (os error 39)"
InvalidUtf8 == "stream did not contain valid UTF-8"
NotRegular == "the source path is neither a regular file nor a symlink to a regular file"

Done(f, v) == [ok |-> TRUE, val |-> v, err |-> "", fs |-> f]
Fail(f, msg) == [ok |-> FALSE, val |-> <<>>, err |-> msg, fs |-> f]

AncestorIsFile(f, p) == \E k \in 1..(Len(p) - 1) : IsFile(f, SubSeq(p, 1, k))
LookupError(f, p) == IF AncestorIsFile(f, p) THEN ENOTDIR ELSE ENOENT

IsPrefix(a, p) == Len(a) <= Len(p) /\ SubSeq(p, 1, Len(a)) = a
Prefixes(p) == {SubSeq(p, 1, k) : k \in 0..Len(p)}
Restrict(f, D) == [q \in D |-> f[q]]
Without(f, p) == Restrict(f, {q \in DOMAIN f : ~IsPrefix(p, q)})
Put(f, p, node) == [q \in DOMAIN f \cup {p} |-> IF q = p THEN node ELSE f[q]]

fs_read_to_string(f, p) ==
    IF ~Exists(f, p) THEN Fail(f, LookupError(f, p))
    ELSE IF IsDir(f, p) THEN Fail(f, EISDIR)
    ELSE IF ~Utf8Decode(f[p].bytes).ok THEN Fail(f, InvalidUtf8)
    ELSE Done(f, Utf8Decode(f[p].bytes).text)

\* a slip of fs_write: the file opened for append instead of truncated
fs_write_append(f, p, text) ==
    IF IsDir(f, p) THEN Fail(f, EISDIR)
    ELSE IF ~IsDir(f, Parent(p)) THEN Fail(f, LookupError(f, p))
    ELSE Done(Put(f, p, FileNode((IF IsFile(f, p) THEN f[p].bytes ELSE <<>>)
                                 \o Utf8Encode(text))), <<>>)

\* fs::write: the file created or truncated, then the bytes written
fs_write(f, p, text) ==
    IF IsDir(f, p) THEN Fail(f, EISDIR)
    ELSE IF ~IsDir(f, Parent(p)) THEN Fail(f, LookupError(f, p))
    ELSE Done(Put(f, p, FileNode(Utf8Encode(text))), <<>>)

fs_remove_file(f, p) ==
    IF ~Exists(f, p) THEN Fail(f, LookupError(f, p))
    ELSE IF IsDir(f, p) THEN Fail(f, EISDIR)
    ELSE Done(Without(f, p), <<>>)

fs_remove_dir_all(f, p) ==
    IF ~Exists(f, p) THEN Fail(f, LookupError(f, p))
    ELSE IF IsFile(f, p) THEN Fail(f, ENOTDIR)
    ELSE Done(Without(f, p), <<>>)

fs_create_dir_all(f, p) ==
    IF IsDir(f, p) THEN Done(f, <<>>)
    ELSE IF IsFile(f, p) THEN Fail(f, EEXIST)
    ELSE IF AncestorIsFile(f, p) THEN Fail(f, ENOTDIR)
    ELSE Done([q \in DOMAIN f \cup Prefixes(p) |->
                 IF q \in DOMAIN f THEN f[q] ELSE DirNode], <<>>)

\* the subtree at old, moved to new
Moved(f, old, new) ==
    LET rest == Without(Without(f, new), old)
        sub == {q \in DOMAIN f : IsPrefix(old, q)}
        To(q) == new \o SubSeq(q, Len(old) + 1, Len(q))
    IN  [q \in DOMAIN rest \cup {To(r) : r \in sub} |->
           IF \E r \in sub : To(r) = q
           THEN f[CHOOSE r \in sub : To(r) = q]
           ELSE rest[q]]

HasEntries(f, d) == \E q \in DOMAIN f : Len(q) = Len(d) + 1 /\ IsPrefix(d, q)

\* fs::rename: replaces a file or an empty directory at new
fs_rename(f, old, new) ==
    IF ~Exists(f, old) THEN Fail(f, LookupError(f, old))
    ELSE IF ~IsDir(f, Parent(new)) THEN Fail(f, LookupError(f, new))
    ELSE IF old = new THEN Done(f, <<>>)
    ELSE IF IsDir(f, old) /\ IsPrefix(old, new) THEN Fail(f, EINVAL)
    ELSE IF IsFile(f, old) /\ IsDir(f, new) THEN Fail(f, EISDIR)
    ELSE IF IsDir(f, old) /\ IsFile(f, new) THEN Fail(f, ENOTDIR)
    ELSE IF IsDir(f, old) /\ IsDir(f, new) /\ HasEntries(f, new) THEN Fail(f, ENOTEMPTY)
    ELSE Done(Moved(f, old, new), <<>>)

\* fs::copy: the outcomes it can have.  "If from and to both point to the
\* same file, then the file will likely get truncated by this operation."
fs_copy(f, src, dest) ==
    IF ~Exists(f, src) THEN {Fail(f, LookupError(f, src))}
    ELSE IF IsDir(f, src) THEN {Fail(f, NotRegular)}
    ELSE IF src = dest THEN {Done(Put(f, dest, FileNode(<<>>)), <<>>), Done(f, <<>>)}
    ELSE IF IsDir(f, dest) THEN {Fail(f, EISDIR)}
    ELSE IF ~IsDir(f, Parent(dest)) THEN {Fail(f, LookupError(f, dest))}
    ELSE {Done(Put(f, dest, FileNode(f[src].bytes)), <<>>)}

-----------------------------------------------------------------------------
(* The file-system commands.  Each yields [ret, fs, prims]: what it         *)
(* returns, the file system it leaves, the primitives it called.            *)

\* the message of lib.rs line 101, "target file already exists" in Chinese
TargetExists == "target file already exists"

Outcome(r, prims) ==
    [ret |-> IF r.ok THEN Ok(r.val) ELSE Err(r.err), fs |-> r.fs, prims |-> prims]

read_file_content(f, path) == Outcome(fs_read_to_string(f, path), <<"read_to_string">>)

write_file_content(f, path, content) == Outcome(fs_write(f, path, content), <<"write">>)

delete_filter_file(f, path) == Outcome(fs_remove_file(f, path), <<"remove_file">>)

delete_filter_folder(f, path) == Outcome(fs_remove_dir_all(f, path), <<"remove_dir_all">>)

create_filter_folder(f, path) == Outcome(fs_create_dir_all(f, path), <<"create_dir_all">>)

path_exists(f, path) == [ret |-> Ok(Exists(f, path)), fs |-> f, prims |-> <<>>]

\* a slip of rename_filter_file: the destination not looked at
rename_unchecked(f, old_path, new_path) ==
    Outcome(fs_rename(f, old_path, new_path), <<"rename">>)

rename_filter_file(f, old_path, new_path) ==
    IF Exists(f, new_path)
    THEN [ret |-> Err(TargetExists), fs |-> f, prims |-> <<>>]
    ELSE Outcome(fs_rename(f, old_path, new_path), <<"rename">>)

\* copy_sound_file -> copy_file_powershell, the branch for platforms other
\* than windows: the outcomes it can have
copy_file_powershell(f, src, dest) ==
    LET made == fs_create_dir_all(f, Parent(dest))
    IN  IF ~made.ok THEN {Outcome(made, <<"create_dir_all">>)}
        ELSE {Outcome(c, <<"create_dir_all", "copy">>) : c \in fs_copy(made.fs, src, dest)}

-----------------------------------------------------------------------------
(* The commands as the dispatcher runs them, one at a time *)

\* the paths the commands are given
Sounds == <<"sounds">>
Custom == <<"custom">>
Alert == <<"alert", Dot, "wav">>
FsPaths == { <<Alert>>, <<Sounds>>, <<Sounds, Alert>>, <<Sounds, Custom>>,
             <<Sounds, Custom, Alert>> }
FsTexts == {<<>>, <<97>>, <<233, 20013, 128512>>}
BadBytes == <<255>>

\* the file system holds at most FsNodes entries, none deeper than FsDepth
Fits(f) ==
    /\ Cardinality(DOMAIN f) <= FsNodes + 1
    /\ \A q \in DOMAIN f : Len(q) <= FsDepth

Run(op, path, path2, text, out, w) ==
    /\ call.op = "none"
    /\ Fits(out.fs)
    /\ call' = [NoCall EXCEPT !.op = op, !.path = path, !.path2 = path2, !.text = text]
    /\ ret' = out.ret
    /\ fs' = out.fs
    /\ io' = [NoIo EXCEPT !.prims = out.prims]
    /\ written' = w
    /\ UNCHANGED <<spawned, windows, task>>

ReadFileContent ==
    \E path \in FsPaths :
        Run("read_file_content", path, NoPath, <<>>, read_file_content(fs, path), written)

WriteFileContent ==
    \E path \in FsPaths, content \in FsTexts :
        LET out == write_file_content(fs, path, content)
        IN  Run("write_file_content", path, NoPath, content, out,
                IF out.ret.ok
                THEN [some |-> TRUE, path |-> path, text |-> content,
                      replaced |-> IsFile(fs, path) /\ fs[path].bytes # <<>>]
                ELSE NoWrite)

DeleteFilterFile ==
    \E path \in FsPaths :
        Run("delete_filter_file", path, NoPath, <<>>, delete_filter_file(fs, path), NoWrite)

DeleteFilterFolder ==
    \E path \in FsPaths :
        Run("delete_filter_folder", path, NoPath, <<>>, delete_filter_folder(fs, path), NoWrite)

CreateFilterFolder ==
    \E path \in FsPaths :
        Run("create_filter_folder", path, NoPath, <<>>, create_filter_folder(fs, path), NoWrite)

PathExists ==
    \E path \in FsPaths :
        Run("path_exists", path, NoPath, <<>>, path_exists(fs, path), written)

RenameFilterFile ==
    \E old_path \in FsPaths, new_path \in FsPaths :
        Run("rename_filter_file", old_path, new_path, <<>>,
            rename_filter_file(fs, old_path, new_path), NoWrite)

CopySoundFile ==
    \E src \in FsPaths, dest \in FsPaths :
        \E out \in copy_file_powershell(fs, src, dest) :
            Run("copy_sound_file", src, dest, <<>>, out, NoWrite)

InitFs ==
    /\ fs \in TreesUpTo(FsPaths, {BadBytes}, 1)
    /\ call = NoCall
    /\ ret = NoRet
    /\ io = NoIo
    /\ written = NoWrite
    /\ spawned = NoSpawn
    /\ windows = <<>>
    /\ task = <<>>

NextFs ==
    \/ ReadFileContent
    \/ WriteFileContent
    \/ DeleteFilterFile
    \/ DeleteFilterFolder
    \/ CreateFilterFolder
    \/ PathExists
    \/ RenameFilterFile
    \/ CopySoundFile
    \/ Respond

SpecFs == InitFs /\ [][NextFs]_vars

-----------------------------------------------------------------------------
(* create_overlay_window.  An async command: the runtime may run several   *)
(* invocations at once, each one the look-up of the label (line 109) and   *)
(* then the parse of the url and the build of the window (lines 124-133).  *)

NumTasks == 2
Tasks == 1..NumTasks

Labels == {"overlay", "trade"}
NoUrl == <<>>
Urls == { <<"https", ":", "//", "a.example">>, <<"https", ":", "//", "b.example">>,
          <<"a.example">> }

RelativeUrl == "relative URL without a base"
EmptyHost == "empty host"
LabelTaken == "a window with this label already exists"
BuildFailed == "failed to create the window"

\* target_url.parse::<Url>(): [ok, url, err]
UrlParse(u) ==
    IF Len(u) < 2 \/ u[2] # ":"
    THEN [ok |-> FALSE, url |-> [scheme |-> "", host |-> ""], err |-> RelativeUrl]
    ELSE IF Len(u) < 4 \/ u[3] # "//"
    THEN [ok |-> FALSE, url |-> [scheme |-> "", host |-> ""], err |-> EmptyHost]
    ELSE [ok |-> TRUE, url |-> [scheme |-> u[1], host |-> u[4]], err |-> ""]

\* app.get_webview_window(&label).is_some()
HasWindow(ws, label) == \E i \in 1..Len(ws) : ws[i].label = label

\* a slip of Found: the window never looked up
NeverFound(ws, label) == FALSE

\* line 109: the early return is taken
Found(ws, label) == HasWindow(ws, label)

Built(ws, r, b) == [windows |-> ws, ret |-> r, built |-> b]

\* a slip of ParseAndBuild: the window built before the url is looked at
BuildThenParse(ws, label, target_url) ==
    LET parsed == UrlParse(target_url)
        made == Append(ws, [label |-> label, url |-> parsed.url])
    IN  IF parsed.ok THEN {Built(made, Ok(<<>>), TRUE)}
        ELSE {Built(made, Err(parsed.err), TRUE)}

\* lines 124-135: the outcomes of the parse and the build.  The windowing
\* subsystem may refuse a label that was taken meanwhile, or may not: its own
\* look-up and registration are two steps as well.
ParseAndBuild(ws, label, target_url) ==
    LET parsed == UrlParse(target_url)
        made == Append(ws, [label |-> label, url |-> parsed.url])
    IN  IF ~parsed.ok THEN {Built(ws, Err(parsed.err), FALSE)}
        ELSE IF HasWindow(ws, label)
             THEN {Built(ws, Err(LabelTaken), TRUE), Built(made, Ok(<<>>), TRUE)}
             ELSE {Built(made, Ok(<<>>), TRUE), Built(ws, Err(BuildFailed), TRUE)}

IdleTask == [pc |-> "idle", label |-> "", url |-> NoUrl, found |-> FALSE,
             built |-> FALSE, ret |-> NoRet]

\* the command is invoked and looks the label up
LookUp(t) ==
    \E label \in Labels, target_url \in Urls :
        /\ task[t].pc = "idle"
        /\ task' = [task EXCEPT ![t] =
                      IF Found(windows, label)
                      THEN [IdleTask EXCEPT !.pc = "done", !.label = label,
                                            !.url = target_url, !.found = TRUE,
                                            !.ret = Ok(<<>>)]
                      ELSE [IdleTask EXCEPT !.pc = "build", !.label = label,
                                            !.url = target_url]]
        /\ UNCHANGED <<windows, fs, call, ret, io, written, spawned>>

Build(t) ==
    /\ task[t].pc = "build"
    /\ \E out \in ParseAndBuild(windows, task[t].label, task[t].url) :
        /\ windows' = out.windows
        /\ task' = [task EXCEPT ![t].pc = "done", ![t].ret = out.ret,
                                ![t].built = out.built]
    /\ UNCHANGED <<fs, call, ret, io, written, spawned>>

Return(t) ==
    /\ task[t].pc = "done"
    /\ task' = [task EXCEPT ![t] = IdleTask]
    /\ UNCHANGED <<windows, fs, call, ret, io, written, spawned>>

InitWin ==
    /\ windows = <<>>
    /\ task = [t \in Tasks |-> IdleTask]
    /\ fs = EmptyFs
    /\ call = NoCall
    /\ ret = NoRet
    /\ io = NoIo
    /\ written = NoWrite
    /\ spawned = NoSpawn

NextWin == \E t \in Tasks : LookUp(t) \/ Build(t) \/ Return(t)

\* invocations that overlap
SpecWin == InitWin /\ [][NextWin]_vars

\* invocations one after the other: a command is invoked when none is running
NoneRunning == \A t \in Tasks : task[t].pc = "idle"
NextWinSeq == \E t \in Tasks : (NoneRunning /\ LookUp(t)) \/ Build(t) \/ Return(t)

SpecWinSeq == InitWin /\ [][NextWinSeq]_vars

-----------------------------------------------------------------------------
(* The shell invoker (powershell_opener.rs).  Here a path is a tuple of    *)
(* characters; the fixed text of a command line is kept in pieces that     *)
(* hold no quote.                                                          *)

MaxPathLen == 2
CREATE_NO_WINDOW == 134217728

Apostrophe == "'"
\* U+2019, RIGHT SINGLE QUOTATION MARK: a character a file name may hold
CurlyQuote == "U+2019"
PathChars == {"a", " ", ";", Apostrophe, CurlyQuote}
ShellPaths == SeqsUpTo(PathChars, MaxPathLen)

\* s.replace("'", "''")
RECURSIVE escape_single_quotes(_)
escape_single_quotes(s) ==
    IF s = <<>> THEN <<>>
    ELSE (IF Head(s) = Apostrophe THEN <<Apostrophe, Apostrophe>> ELSE <<Head(s)>>)
         \o escape_single_quotes(Tail(s))

\* the format! of open_folder, open_file and copy_file_powershell
OpenFolderCommand(path) ==
    <<"Start-Process -FilePath ", Apostrophe, "explorer", Apostrophe,
      " -ArgumentList ", Apostrophe>>
    \o escape_single_quotes(path) \o <<Apostrophe>>

OpenFileCommand(path) ==
    <<"Start-Process -FilePath ", Apostrophe>>
    \o escape_single_quotes(path) \o <<Apostrophe>>

CopyCommand(src, dest) ==
    <<"New-Item -ItemType Directory -Force -Path (Split-Path -Path ", Apostrophe>>
    \o escape_single_quotes(dest)
    \o <<Apostrophe, " -Parent); Copy-Item -Path ", Apostrophe>>
    \o escape_single_quotes(src)
    \o <<Apostrophe, " -Destination ", Apostrophe>>
    \o escape_single_quotes(dest)
    \o <<Apostrophe, " -Force">>

\* Command::new("powershell") with its arguments and creation flags
PowerShell(ps_cmd) ==
    [program |-> "powershell",
     args |-> <<"-NoProfile", "-NonInteractive", "-Command", ps_cmd>>,
     flags |-> CREATE_NO_WINDOW]

\* Command::new("open" or "xdg-open").arg(path)
Opener(platform, path) ==
    [program |-> IF platform = "macos" THEN "open" ELSE "xdg-open",
     args |-> <<path>>, flags |-> 0]

Platforms == {"windows", "macos", "linux"}
\* how the child ends: it cannot be spawned, or exits with a status
Exits == {"spawn failed", "exit 0", "exit 1"}

\* spawn, wait and the match on the status
ExitResult(exit, prefix) ==
    IF exit = "spawn failed" THEN Err(ENOENT)
    ELSE IF exit = "exit 0" THEN Ok(<<>>)
    ELSE Err(prefix)

open_folder(platform, path, exit) ==
    [spawned |-> IF platform = "windows" THEN PowerShell(OpenFolderCommand(path))
                 ELSE Opener(platform, path),
     ret |-> ExitResult(exit, "process exited with exit status: 1")]

open_file(platform, path, exit) ==
    [spawned |-> IF platform = "windows" THEN PowerShell(OpenFileCommand(path))
                 ELSE Opener(platform, path),
     ret |-> ExitResult(exit, "process exited with exit status: 1")]

\* copy_file_powershell, the branch for windows
copy_file_windows(src, dest, exit) ==
    [spawned |-> PowerShell(CopyCommand(src, dest)),
     ret |-> ExitResult(exit, "Copy process exited with exit status: 1")]

Shell(op, path, path2, out) ==
    /\ call.op = "none"
    /\ call' = [NoCall EXCEPT !.op = op, !.path = path, !.path2 = path2]
    /\ ret' = out.ret
    /\ spawned' = out.spawned
    /\ UNCHANGED <<fs, io, written, windows, task>>

OpenFolderCmd ==
    \E platform \in Platforms, path \in ShellPaths, exit \in Exits :
        Shell("open_folder_cmd", path, NoPath, open_folder(platform, path, exit))

OpenFileCmd ==
    \E platform \in Platforms, path \in ShellPaths, exit \in Exits :
        Shell("open_file_cmd", path, NoPath, open_file(platform, path, exit))

CopySoundFileWindows ==
    \E src \in ShellPaths, dest \in ShellPaths, exit \in Exits :
        Shell("copy_sound_file", src, dest, copy_file_windows(src, dest, exit))

InitShell ==
    /\ fs = EmptyFs
    /\ call = NoCall
    /\ ret = NoRet
    /\ io = NoIo
    /\ written = NoWrite
    /\ spawned = NoSpawn
    /\ windows = <<>>
    /\ task = <<>>

NextShell == OpenFolderCmd \/ OpenFileCmd \/ CopySoundFileWindows \/ Respond

SpecShell == InitShell /\ [][NextShell]_vars

\* How powershell reads a command line: a quote opens a literal, a pair of
\* quotes inside it stands for one quote, a single one closes it; the curly
\* quotes are quotes like the apostrophe.  [ok, literals, outside]
PsQuotes == {Apostrophe, CurlyQuote}

RECURSIVE PsOutside(_, _), PsInside(_, _, _)
PsOutside(cmd, acc) ==
    IF cmd = <<>> THEN [acc EXCEPT !.ok = TRUE]
    ELSE IF Head(cmd) \in PsQuotes THEN PsInside(Tail(cmd), <<>>, acc)
    ELSE PsOutside(Tail(cmd), [acc EXCEPT !.outside = Append(@, Head(cmd))])
PsInside(cmd, lit, acc) ==
    IF cmd = <<>> THEN [acc EXCEPT !.ok = FALSE]
    ELSE IF Head(cmd) \in PsQuotes
         THEN IF Len(cmd) >= 2 /\ cmd[2] \in PsQuotes
              THEN PsInside(Tail(Tail(cmd)), Append(lit, cmd[2]), acc)
              ELSE PsOutside(Tail(cmd), [acc EXCEPT !.literals = Append(@, lit)])
         ELSE PsInside(Tail(cmd), Append(lit, Head(cmd)), acc)
PsParse(cmd) == PsOutside(cmd, [ok |-> FALSE, literals |-> <<>>, outside |-> <<>>])

-----------------------------------------------------------------------------
(* Properties of scan_filter_files, under SpecScan *)

Scanned == call.op = "scan_filter_files"

\* p lies below root, at any depth
Below(root, p) == Len(p) > Len(root) /\ SubSeq(p, 1, Len(root)) = root

\* a file name that ends in ".filter" after a non-empty stem
NamedFilter(name) ==
    Len(name) >= 3 /\ name[Len(name)] = "filter" /\ name[Len(name) - 1] = Dot

FilterFilesBelow(f, root) ==
    {p \in DOMAIN f : Below(root, p) /\ IsFile(f, p) /\ NamedFilter(FileName(p))}

NoDuplicates(s) == \A i, j \in 1..Len(s) : s[i] = s[j] => i = j

\* the fault of the call lies where the traversal from its root comes by
FaultHit ==
    \/ call.fault.kind = "read_dir" /\ IsDir(fs, call.fault.at)
         /\ (call.fault.at = call.path \/ Below(call.path, call.fault.at))
    \/ call.fault.kind = "entry" /\ Exists(fs, call.fault.at)
         /\ Below(call.path, call.fault.at)

\* C1: a scan of an existing root that meets no I/O failure returns every
\* file below the root whose extension is "filter", each once, and nothing
\* else
C1_ScanListsEveryFilterFile ==
    (Scanned /\ Exists(fs, call.path) /\ ~FaultHit) =>
        /\ ret.ok
        /\ Range(ret.val) = FilterFilesBelow(fs, call.path)
        /\ NoDuplicates(ret.val)

\* C1 as it holds: such a scan returns every file below the root whose
\* extension is "filter" and whose path is valid Unicode, each once, and
\* nothing else
C1_ScanListsUnicodeFilterFiles ==
    (Scanned /\ Exists(fs, call.path) /\ ~FaultHit) =>
        /\ ret.ok
        /\ Range(ret.val) = {p \in FilterFilesBelow(fs, call.path) : ToStr(p).some}
        /\ NoDuplicates(ret.val)

C1_Witness ==
    /\ Scanned /\ ret.ok /\ ~FaultHit
    /\ \E p \in Range(ret.val) : Len(p) >= Len(call.path) + 2
    /\ \E p \in DOMAIN fs : Below(call.path, p) /\ IsFile(fs, p) /\ p \notin Range(ret.val)

\* C7: a scan of a root that does not exist fails with "Path does not
\* exist", has read no directory and returns no list
C7_MissingRootFailsUnread ==
    (Scanned /\ ~Exists(fs, call.path)) =>
        /\ ret = Err("Path does not exist")
        /\ io.reads = 0
        /\ io.pushed = 0

C7_Witness ==
    /\ Scanned /\ ~Exists(fs, call.path) /\ ~ret.ok
    /\ FilterFilesBelow(fs, <<>>) # {}

\* C8: a scan that meets an I/O failure, wherever and after however many
\* paths, returns the error with its message and none of the paths
C8_FailureDiscardsEverything ==
    (Scanned /\ Exists(fs, call.path) /\ FaultHit) =>
        /\ ~ret.ok
        /\ ret.err = IoMessage
        /\ ret.val = <<>>

C8_Witness ==
    /\ Scanned /\ FaultHit /\ ~ret.ok
    /\ Len(call.fault.at) >= Len(call.path) + 2
    /\ io.pushed >= 1

-----------------------------------------------------------------------------
(* Properties of the file-system commands, under SpecFs *)

Dispatched(op) == call.op = "none" /\ call'.op = op

\* C2: a rename onto a path that exists fails with the "target exists"
\* message, calls no primitive and leaves the file system as it was
C2_RenameOntoExistingChangesNothing ==
    [][(Dispatched("rename_filter_file") /\ Exists(fs, call'.path2)) =>
          /\ ret' = Err(TargetExists)
          /\ io'.prims = <<>>
          /\ fs' = fs]_vars

C2_Witness ==
    /\ call.op = "rename_filter_file" /\ ret = Err(TargetExists)
    /\ call.path # call.path2
    /\ IsFile(fs, call.path) /\ IsFile(fs, call.path2)
    /\ fs[call.path].bytes # fs[call.path2].bytes

\* C9: a copy of a file that succeeds leaves the destination's parent a
\* directory, the destination a file with the source's content, and the
\* source as it was
C9_CopyFillsDestKeepsSource ==
    [][(Dispatched("copy_sound_file") /\ IsFile(fs, call'.path) /\ ret'.ok) =>
          /\ IsDir(fs', Parent(call'.path2))
          /\ IsFile(fs', call'.path2)
          /\ fs'[call'.path2].bytes = fs[call'.path].bytes
          /\ fs'[call'.path] = fs[call'.path]]_vars

\* what holds of the code: the same of a copy onto another path, which
\* succeeds unless the destination cannot be made a file
CopyOntoAnotherPath ==
    [][(Dispatched("copy_sound_file") /\ IsFile(fs, call'.path)
          /\ call'.path # call'.path2) =>
          /\ ret'.ok =>
               /\ IsDir(fs', Parent(call'.path2))
               /\ IsFile(fs', call'.path2)
               /\ fs'[call'.path2].bytes = fs[call'.path].bytes
               /\ fs'[call'.path] = fs[call'.path]
               /\ io'.prims = <<"create_dir_all", "copy">>
          /\ ret'.ok <=> ~(AncestorIsFile(fs, call'.path2) \/ IsDir(fs, call'.path2))]_vars

CopyOntoAnotherPath_Witness ==
    /\ call.op = "copy_sound_file" /\ ret.ok
    /\ call.path = <<Alert>> /\ call.path2 = <<Sounds, Custom, Alert>>
    /\ fs[call.path2].bytes = BadBytes

\* C10: a read of the path written last returns the text written
C10_ReadReturnsWhatWasWritten ==
    (call.op = "read_file_content" /\ written.some /\ written.path = call.path) =>
        ret = Ok(written.text)

C10_Witness ==
    /\ call.op = "read_file_content" /\ written.some /\ written.path = call.path
    /\ written.replaced
    /\ Len(written.text) = 3
    /\ ret.ok

C10_WitnessEmpty ==
    /\ call.op = "read_file_content" /\ written.some /\ written.path = call.path
    /\ written.replaced
    /\ written.text = <<>>
    /\ ret.ok

-----------------------------------------------------------------------------
(* Properties of create_overlay_window *)

WindowsOf(label) == {i \in 1..Len(windows) : windows[i].label = label}

AtMostOnePerLabel == \A l \in Labels : Cardinality(WindowsOf(l)) <= 1

\* C3: under SpecWinSeq, a call for a label that has a window returns
\* success and changes no window, a window that is built shows the url of
\* the call that built it, and no label ever has two windows
C3_SecondCallIsNoOp ==
    /\ []AtMostOnePerLabel
    /\ [][\A t \in Tasks :
            /\ (task[t].pc = "idle" /\ task'[t].pc # "idle"
                  /\ HasWindow(windows, task'[t].label)) =>
                  /\ task'[t].pc = "done"
                  /\ task'[t].ret = Ok(<<>>)
                  /\ windows' = windows
            /\ (task[t].pc = "build" /\ task'[t].pc = "done" /\ windows' # windows) =>
                  /\ windows' = Append(windows, [label |-> task[t].label,
                                                 url |-> UrlParse(task[t].url).url])
                  /\ UrlParse(task[t].url).ok]_vars

C3_Witness ==
    \E t \in Tasks :
        /\ task[t].pc = "done" /\ task[t].found /\ task[t].ret.ok
        /\ UrlParse(task[t].url).ok
        /\ \E i \in WindowsOf(task[t].label) : windows[i].url # UrlParse(task[t].url).url

\* C4: under SpecWin, no label ever has two windows
C4_CreatedAtMostOnce == AtMostOnePerLabel

InvalidUrl(t) == task[t].pc # "idle" /\ ~UrlParse(task[t].url).ok

\* C5: under SpecWin, a call whose url does not parse ends in an error
C5_InvalidUrlIsAnError ==
    \A t \in Tasks : (task[t].pc = "done" /\ InvalidUrl(t)) => ~task[t].ret.ok

\* C5 as it holds: a call whose url does not parse and that finds no window
\* with its label ends in the parse error, one that finds a window ends in
\* success; neither builds a window, and no step of such a call changes the
\* windows
C5_InvalidUrlBuildsNothing ==
    /\ [](\A t \in Tasks : (task[t].pc = "done" /\ InvalidUrl(t)) =>
              /\ ~task[t].built
              /\ task[t].found => task[t].ret = Ok(<<>>)
              /\ ~task[t].found =>
                    /\ ~task[t].ret.ok
                    /\ task[t].ret.err \in {RelativeUrl, EmptyHost})
    /\ [][\A t \in Tasks :
            (task'[t] # task[t] /\ (InvalidUrl(t) \/ InvalidUrl(t)')) =>
                windows' = windows]_vars

C5_Witness ==
    \E t \in Tasks :
        /\ task[t].pc = "done" /\ InvalidUrl(t) /\ ~task[t].found
        /\ ~task[t].ret.ok
        /\ HasWindow(windows, task[t].label)

-----------------------------------------------------------------------------
(* Properties of the shell commands, under SpecShell *)

\* what the command line of the call is to mean to the shell
Meant ==
    IF call.op = "open_folder_cmd"
    THEN [ok |-> TRUE, literals |-> << <<"explorer">>, call.path >>,
          outside |-> <<"Start-Process -FilePath ", " -ArgumentList ">>]
    ELSE IF call.op = "open_file_cmd"
    THEN [ok |-> TRUE, literals |-> << call.path >>,
          outside |-> <<"Start-Process -FilePath ">>]
    ELSE [ok |-> TRUE, literals |-> << call.path2, call.path, call.path2 >>,
          outside |-> <<"New-Item -ItemType Directory -Force -Path (Split-Path -Path ",
                        " -Parent); Copy-Item -Path ", " -Destination ", " -Force">>]

\* C6: the command line handed to powershell reads back as the fixed text
\* with each path one literal, unchanged
C6_CommandReadsBackThePaths ==
    spawned.program = "powershell" => PsParse(spawned.args[4]) = Meant

\* what holds of the code: the same of paths that hold no curly quote
CommandReadsBackPlainPaths ==
    (spawned.program = "powershell"
       /\ CurlyQuote \notin Range(call.path)
       /\ (call.op = "copy_sound_file" => CurlyQuote \notin Range(call.path2)))
    => PsParse(spawned.args[4]) = Meant

CommandReadsBackPlainPaths_Witness ==
    /\ spawned.program = "powershell" /\ call.op = "copy_sound_file"
    /\ call.path = <<Apostrophe, Apostrophe>> /\ call.path2 = <<Apostrophe, ";">>
    /\ PsParse(spawned.args[4]) = Meant

=============================================================================
